---- MODULE Spec2Model ----
(***************************************************************************)
(* Model of task_b.py: the two-stage batch script that                     *)
(*   Step 1  downloads the enrollment file, rebuilds per-patient           *)
(*           enrollment spans and writes patient_enrollment_span.csv;      *)
(*   Step 2  downloads the outpatient-visit file, joins it to the spans,   *)
(*           aggregates per span and writes result.csv.                    *)
(*                                                                         *)
(* A timestamp is the integer yyyymmdd, so that integer order is calendar  *)
(* order.  A csv file is a bag of rows (its content up to row order);      *)
(* read_csv turns it into a data frame, a sequence of records.             *)
(***************************************************************************)
EXTENDS Integers, Sequences, FiniteSets, Bags, TLC

VARIABLES
    pc,                  \* position of the script
    exitCode,            \* -1 while running, then the process's exit status
    downloads,           \* downloads[k]: calls of client.download_file for file k
    retrieveError,       \* retrieveError[k]: what download k raised
    enrollment_csv,      \* local copy of the enrollment file
    visits_csv,          \* local copy of the outpatient-visit file
    year_check,          \* what line 93 printed
    count_check,         \* what line 152 printed
    pt_enrollment_span,  \* the data frame of Step 1, as of line 122
    span_csv_written,    \* patient_enrollment_span.csv exists
    combined,            \* the joined frame after the date filter (line 167)
    result,              \* the data frame written to result.csv (line 181)
    result_csv_written   \* result.csv exists

vars == <<pc, exitCode, downloads, retrieveError, enrollment_csv, visits_csv,
          year_check, count_check, pt_enrollment_span, span_csv_written,
          combined, result, result_csv_written>>

----------------------------------------------------------------------------
(* Bounds and input domains *)

MaxEnroll == 3        \* rows of the enrollment file, span-building runs
MaxEnrollAgg == 2     \* rows of the enrollment file, aggregation runs
MaxVisits == 3        \* rows of the visit file, aggregation runs

Patients == {"A", "B"}

\* Order of the patient_id strings, as sort_values compares them.
Rank(p) == IF p = "A" THEN 1 ELSE 2

\* month_year strings "mm/dd/yy", field by field.
MonthYearStrings ==
    {<<mm, dd, yy>> : mm \in {2, 3, 4}, dd \in {1, 15}, yy \in {23, 24}}

EnrollRows == [patient_id : Patients, month_year : MonthYearStrings]

EnrollRowsAgg == [patient_id : Patients, month_year : {<<2, 1, 23>>, <<3, 1, 23>>}]

VisitRows == [patient_id : Patients,
              date : {<<2, 28, 23>>, <<3, 1, 23>>},
              outpatient_visit_count : 0..2]

RECURSIVE FilesUpTo(_, _)
\* Every file of at most n rows drawn from Rows.
FilesUpTo(Rows, n) ==
    IF n = 0 THEN {EmptyBag}
    ELSE LET S == FilesUpTo(Rows, n - 1)
         IN  S \cup {b (+) SetToBag({r}) : b \in S, r \in Rows}

EnrollFiles == FilesUpTo(EnrollRows, MaxEnroll)

EnrollFilesAgg == FilesUpTo(EnrollRowsAgg, MaxEnrollAgg)

VisitFiles == FilesUpTo(VisitRows, MaxVisits)

\* The visit files of the span-building runs: none, or one visit of patient A.
VisitFilesSmall ==
    {EmptyBag,
     SetToBag({[patient_id |-> "A", date |-> <<2, 28, 23>>,
                outpatient_visit_count |-> 1]})}

----------------------------------------------------------------------------
(* Calendar *)

Date(y, m, d) == y * 10000 + m * 100 + d
Year(t) == t \div 10000
Month(t) == (t \div 100) % 100
Day(t) == t % 100

IsLeap(y) == (y % 4 = 0 /\ y % 100 # 0) \/ y % 400 = 0

DaysInMonth(y, m) ==
    IF m = 2 THEN (IF IsLeap(y) THEN 29 ELSE 28)
    ELSE IF m \in {4, 6, 9, 11} THEN 30 ELSE 31

\* pd.to_datetime(s, format='%m/%d/%y'); %y maps 00..68 to 2000..2068.
to_datetime(s) == Date(2000 + s[3], s[1], s[2])

\* t + MonthEnd(0): roll forward to the last day of t's month.
MonthEnd0(t) == Date(Year(t), Month(t), DaysInMonth(Year(t), Month(t)))

Min(S) == CHOOSE x \in S : \A y \in S : x <= y
Max(S) == CHOOSE x \in S : \A y \in S : x >= y

----------------------------------------------------------------------------
(* Data-frame helpers *)

RECURSIVE read_csv(_)
\* The rows of a file, in the file's (unspecified but fixed) row order.
read_csv(file) ==
    IF file = EmptyBag THEN <<>>
    ELSE LET r == CHOOSE x \in BagToSet(file) : TRUE
         IN  <<r>> \o read_csv(file (-) SetToBag({r}))

\* Rows of df at the indices in keep, in order.
Rows(df, keep) ==
    LET F[i \in 0..Len(df)] ==
            IF i = 0 THEN <<>>
            ELSE IF i \in keep THEN Append(F[i - 1], df[i]) ELSE F[i - 1]
    IN  F[Len(df)]

\* df.drop_duplicates(): keep the first occurrence of every row.
drop_duplicates(df) ==
    Rows(df, {i \in 1..Len(df) : \A j \in 1..(i - 1) : df[j] # df[i]})

----------------------------------------------------------------------------
(* Step 1: Data Transformation *)

\* Line 85.
ParseEnrollment(df) ==
    [i \in 1..Len(df) |->
        [patient_id |-> df[i].patient_id, month_year |-> to_datetime(df[i].month_year)]]

\* Row order of sort_values(by=['patient_id', 'month_year']).
RowLeq(a, b) ==
    \/ Rank(a.patient_id) < Rank(b.patient_id)
    \/ /\ a.patient_id = b.patient_id
       /\ a.month_year <= b.month_year

RECURSIVE sort_values(_)
sort_values(df) ==
    IF df = <<>> THEN <<>>
    ELSE LET rest == sort_values(Tail(df))
             r == Head(df)
             before == SelectSeq(rest, LAMBDA x : ~RowLeq(r, x))
             after == SelectSeq(rest, LAMBDA x : RowLeq(r, x))
         IN  before \o <<r>> \o after

\* Variant of the year check with .any() in place of .all().
SingleYearCheckAny(df) ==
    IF \E i \in 1..Len(df) : Year(df[i].month_year) = 2023 THEN "True" ELSE "False"

\* Line 93: print((year == 2023).all()).
SingleYearCheck(df) ==
    IF \A i \in 1..Len(df) : Year(df[i].month_year) = 2023 THEN "True" ELSE "False"

\* Line 107: breaks = dt.diff() != 1, over the whole sorted frame.
\* (Lines 97-103 compute a groups column that line 109 overwrites.)
Break(df, i) ==
    \/ i = 1
    \/ Month(df[i].month_year) - Month(df[i - 1].month_year) # 1

\* Line 108: groups = breaks.cumsum().
Groups(df) ==
    [i \in 1..Len(df) |-> Cardinality({j \in 1..i : Break(df, j)})]

GroupDates(df, i) ==
    LET g == Groups(df)
    IN  {df[j].month_year : j \in {k \in 1..Len(df) : g[k] = g[i]}}

\* Lines 112-113: groupby('groups')['month_year'].transform('min' / 'max').
WithStartEnd(df) ==
    [i \in 1..Len(df) |->
        [patient_id |-> df[i].patient_id,
         month_year |-> df[i].month_year,
         enrollment_start_date |-> Min(GroupDates(df, i)),
         enrollment_end_date |-> Max(GroupDates(df, i))]]

\* Lines 116-118: keep the rows that carry their group's start or end, drop the
\* helper columns, de-duplicate.
SpanRows(df) ==
    LET keep == {i \in 1..Len(df) :
                    \/ df[i].enrollment_start_date = df[i].month_year
                    \/ df[i].enrollment_end_date = df[i].month_year}
        kept == Rows(df, keep)
    IN  drop_duplicates(
            [i \in 1..Len(kept) |->
                [patient_id |-> kept[i].patient_id,
                 enrollment_start_date |-> kept[i].enrollment_start_date,
                 enrollment_end_date |-> kept[i].enrollment_end_date]])

\* Line 122.
FixEndDate(df) ==
    [i \in 1..Len(df) |->
        [df[i] EXCEPT !.enrollment_end_date = MonthEnd0(@)]]

\* Lines 85-122 on the content of the enrollment file.
SpanBuilder(file) ==
    FixEndDate(SpanRows(WithStartEnd(sort_values(ParseEnrollment(read_csv(file))))))

----------------------------------------------------------------------------
(* Step 2: Data Aggregation *)

\* Line 155.
ParseVisits(df) ==
    [i \in 1..Len(df) |->
        [patient_id |-> df[i].patient_id,
         date |-> to_datetime(df[i].date),
         outpatient_visit_count |-> df[i].outpatient_visit_count]]

\* Line 152: print((outpatient_visit_count >= 1).all()).
PositiveCountCheck(df) ==
    IF \A i \in 1..Len(df) : df[i].outpatient_visit_count >= 1 THEN "True" ELSE "False"

\* The rows of right that join one row of left on patient_id.
MatchRows(l, right) ==
    LET m == SelectSeq(right, LAMBDA v : v.patient_id = l.patient_id)
    IN  [k \in 1..Len(m) |->
            [patient_id |-> l.patient_id,
             enrollment_start_date |-> l.enrollment_start_date,
             enrollment_end_date |-> l.enrollment_end_date,
             date |-> m[k].date,
             outpatient_visit_count |-> m[k].outpatient_visit_count]]

RECURSIVE merge(_, _)
\* Line 159: pd.merge(left, right), an inner join on the shared column patient_id.
merge(left, right) ==
    IF left = <<>> THEN <<>>
    ELSE MatchRows(Head(left), right) \o merge(Tail(left), right)

\* Variant of the date filter with the end day excluded.
InRangeOpenEnd(r) ==
    /\ r.enrollment_start_date <= r.date
    /\ r.enrollment_end_date > r.date

\* Line 167: the row's date lies in its enrollment period.
InRange(r) ==
    /\ r.enrollment_start_date <= r.date
    /\ r.enrollment_end_date >= r.date

DateFilter(df) == SelectSeq(df, InRange)

SameSpan(a, b) ==
    /\ a.patient_id = b.patient_id
    /\ a.enrollment_start_date = b.enrollment_start_date
    /\ a.enrollment_end_date = b.enrollment_end_date

\* Sum of outpatient_visit_count over the rows of df at the indices in S.
SumCounts(df, S) ==
    LET F[i \in 0..Len(df)] ==
            IF i = 0 THEN 0
            ELSE F[i - 1] + (IF i \in S THEN df[i].outpatient_visit_count ELSE 0)
    IN  F[Len(df)]

\* Variant of the sum taken after the same-day rows are dropped: only the first
\* row of each date adds its count.
GroupSumAfterDedup(df, i) ==
    SumCounts(df, {j \in 1..Len(df) :
                      /\ SameSpan(df[j], df[i])
                      /\ \A k \in 1..(j - 1) :
                            ~(SameSpan(df[k], df[j]) /\ df[k].date = df[j].date)})

\* Variant of the sum with date among the groupby keys.
GroupSumPerDate(df, i) ==
    SumCounts(df, {j \in 1..Len(df) : SameSpan(df[j], df[i]) /\ df[j].date = df[i].date})

\* Line 168: groupby([patient_id, start, end])[count].transform('sum').
GroupSum(df, i) == SumCounts(df, {j \in 1..Len(df) : SameSpan(df[j], df[i])})

WithVisitSum(df) ==
    [i \in 1..Len(df) |->
        [patient_id |-> df[i].patient_id,
         enrollment_start_date |-> df[i].enrollment_start_date,
         enrollment_end_date |-> df[i].enrollment_end_date,
         date |-> df[i].date,
         outpatient_visit_count |-> df[i].outpatient_visit_count,
         ct_outpatient_visits |-> GroupSum(df, i)]]

SameSpanDate(a, b) == SameSpan(a, b) /\ a.date = b.date

\* Variant that never drops the same-day rows.
DropSameDayNever(df) == df

\* Lines 173-175: drop_duplicates(subset=[patient_id, start, end, date]) when
\* duplicated(subset=...).any().
DropSameDay(df) ==
    LET dup == {i \in 1..Len(df) : \E j \in 1..(i - 1) : SameSpanDate(df[j], df[i])}
    IN  IF dup # {} THEN Rows(df, (1..Len(df)) \ dup) ELSE df

\* Line 177: groupby([patient_id, start, end])[count].transform('count').
GroupCount(df, i) == Cardinality({j \in 1..Len(df) : SameSpan(df[j], df[i])})

\* Lines 177-181: add the day count, drop date and count, de-duplicate.
Summary(df) ==
    drop_duplicates(
        [i \in 1..Len(df) |->
            [patient_id |-> df[i].patient_id,
             enrollment_start_date |-> df[i].enrollment_start_date,
             enrollment_end_date |-> df[i].enrollment_end_date,
             ct_outpatient_visits |-> df[i].ct_outpatient_visits,
             ct_days_with_outpatient_visit |-> GroupCount(df, i)]])

\* Lines 168-181 on the filtered join.
VisitAggregator(df) == Summary(DropSameDay(WithVisitSum(df)))

----------------------------------------------------------------------------
(* The script *)

Outcomes == {"ok", "ClientError", "OtherError"}

Init ==
    /\ pc = "retrieve1"
    /\ exitCode = -1
    /\ downloads = [k \in 1..2 |-> 0]
    /\ retrieveError = [k \in 1..2 |-> "none"]
    /\ enrollment_csv = EmptyBag
    /\ visits_csv = EmptyBag
    /\ year_check = "none"
    /\ count_check = "none"
    /\ pt_enrollment_span = <<>>
    /\ span_csv_written = FALSE
    /\ combined = <<>>
    /\ result = <<>>
    /\ result_csv_written = FALSE

\* Variant of retrieve_file whose except branch reports the error and returns:
\* the script goes on with whatever file is there.
retrieve_file_no_exit(k, outcome, content) ==
    /\ downloads' = [downloads EXCEPT ![k] = @ + 1]
    /\ enrollment_csv' = IF k = 1 /\ outcome = "ok" THEN content ELSE enrollment_csv
    /\ visits_csv' = IF k = 2 /\ outcome = "ok" THEN content ELSE visits_csv
    /\ retrieveError' = IF outcome = "ok" THEN retrieveError
                        ELSE [retrieveError EXCEPT ![k] = outcome]
    /\ pc' = IF k = 1 THEN "step1" ELSE "step2"
    /\ UNCHANGED <<exitCode, year_check, count_check, pt_enrollment_span,
                   span_csv_written, combined, result, result_csv_written>>

\* Lines 20-42, called at lines 57 and 139.  download_file is called once; a
\* ClientError is caught, reported and ends the process with sys.exit(1); any
\* other exception is not caught and ends the process with a traceback, exit
\* status 1 as well.
retrieve_file(k, outcome, content) ==
    /\ downloads' = [downloads EXCEPT ![k] = @ + 1]
    /\ IF outcome = "ok"
       THEN /\ enrollment_csv' = IF k = 1 THEN content ELSE enrollment_csv
            /\ visits_csv' = IF k = 2 THEN content ELSE visits_csv
            /\ pc' = IF k = 1 THEN "step1" ELSE "step2"
            /\ UNCHANGED <<exitCode, retrieveError>>
       ELSE /\ retrieveError' = [retrieveError EXCEPT ![k] = outcome]
            /\ pc' = "exited"
            /\ exitCode' = 1
            /\ UNCHANGED <<enrollment_csv, visits_csv>>
    /\ UNCHANGED <<year_check, count_check, pt_enrollment_span, span_csv_written,
                   combined, result, result_csv_written>>

\* Line 57.
RetrieveEnrollment(Files) ==
    /\ pc = "retrieve1"
    /\ \E outcome \in Outcomes :
         \E content \in (IF outcome = "ok" THEN Files ELSE {EmptyBag}) :
            retrieve_file(1, outcome, content)

\* Lines 60-126.
Step1 ==
    /\ pc = "step1"
    /\ year_check' = SingleYearCheck(sort_values(ParseEnrollment(read_csv(enrollment_csv))))
    /\ pt_enrollment_span' = SpanBuilder(enrollment_csv)
    /\ span_csv_written' = TRUE
    /\ pc' = "retrieve2"
    /\ UNCHANGED <<exitCode, downloads, retrieveError, enrollment_csv, visits_csv,
                   count_check, combined, result, result_csv_written>>

\* Line 139.
RetrieveVisits(Files) ==
    /\ pc = "retrieve2"
    /\ \E outcome \in Outcomes :
         \E content \in (IF outcome = "ok" THEN Files ELSE {EmptyBag}) :
            retrieve_file(2, outcome, content)

\* Lines 142-185; the script then ends with exit status 0.
Step2 ==
    /\ pc = "step2"
    /\ LET outpt_enrollment_span == ParseVisits(read_csv(visits_csv))
           filtered == DateFilter(merge(pt_enrollment_span, outpt_enrollment_span))
       IN  /\ count_check' = PositiveCountCheck(outpt_enrollment_span)
           /\ combined' = filtered
           /\ result' = VisitAggregator(filtered)
    /\ result_csv_written' = TRUE
    /\ pc' = "done"
    /\ exitCode' = 0
    /\ UNCHANGED <<downloads, retrieveError, enrollment_csv, visits_csv, year_check,
                   pt_enrollment_span, span_csv_written>>

\* Runs over rich enrollment files and the two small visit files.
Next ==
    \/ RetrieveEnrollment(EnrollFiles)
    \/ Step1
    \/ RetrieveVisits(VisitFilesSmall)
    \/ Step2

Spec == Init /\ [][Next]_vars

\* Runs over small single-year enrollment files and rich visit files.
NextAgg ==
    \/ RetrieveEnrollment(EnrollFilesAgg)
    \/ Step1
    \/ RetrieveVisits(VisitFiles)
    \/ Step2

SpecAgg == Init /\ [][NextAgg]_vars

----------------------------------------------------------------------------
(* What the claims speak of, stated from the input files *)

Range(df) == {df[i] : i \in 1..Len(df)}

\* The enrollment file's rows as (patient_id, timestamp).
Enrolled == {[patient_id |-> r.patient_id, month_year |-> to_datetime(r.month_year)] :
                r \in BagToSet(enrollment_csv)}

SingleYearInput == \A a, b \in Enrolled : Year(a.month_year) = Year(b.month_year)

MultiYearInput == ~SingleYearInput

\* No patient has two rows of the same month.
NoRepeatedMonth ==
    /\ \A r \in BagToSet(enrollment_csv) : CopiesIn(r, enrollment_csv) = 1
    /\ \A a, b \in Enrolled :
          (a.patient_id = b.patient_id /\ Month(a.month_year) = Month(b.month_year)
             /\ Year(a.month_year) = Year(b.month_year)) => a = b

MonthsOf(p) == {Month(r.month_year) : r \in {x \in Enrolled : x.patient_id = p}}

\* The maximal runs of consecutive months in a set of months, as <<first, last>>.
MaximalRuns(M) ==
    {<<a, b>> \in M \X M :
        /\ a <= b
        /\ \A m \in a..b : m \in M
        /\ (a - 1) \notin M
        /\ (b + 1) \notin M}

SpansOf(p) == {i \in 1..Len(pt_enrollment_span) : pt_enrollment_span[i].patient_id = p}

FirstOfMonth(t) == Date(Year(t), Month(t), 1)
LastOfMonth(t) == Date(Year(t), Month(t), DaysInMonth(Year(t), Month(t)))

NextDay(t) ==
    IF Day(t) < DaysInMonth(Year(t), Month(t)) THEN t + 1
    ELSE IF Month(t) < 12 THEN Date(Year(t), Month(t) + 1, 1)
    ELSE Date(Year(t) + 1, 1, 1)

\* C1: for single-year enrollment pairs, each patient's spans are exactly the
\* maximal runs of consecutive months among that patient's own months, one span
\* per run, whatever the other patients' records are.
C1_SpansAreMaximalRuns ==
    (span_csv_written /\ SingleYearInput /\ NoRepeatedMonth) =>
        \A p \in Patients :
            /\ {<<Month(pt_enrollment_span[i].enrollment_start_date),
                  Month(pt_enrollment_span[i].enrollment_end_date)>> : i \in SpansOf(p)}
                 = MaximalRuns(MonthsOf(p))
            /\ Cardinality(SpansOf(p)) = Cardinality(MaximalRuns(MonthsOf(p)))

\* C2: every emitted span starts on the first day of a month and ends on the
\* last calendar day of a month, whatever day-of-month the input carries; a
\* patient with a single enrolled month gets exactly that month, first day to
\* last day.
C2_SpanDates ==
    span_csv_written =>
        /\ \A i \in 1..Len(pt_enrollment_span) :
              /\ Day(pt_enrollment_span[i].enrollment_start_date) = 1
              /\ pt_enrollment_span[i].enrollment_end_date
                   = LastOfMonth(pt_enrollment_span[i].enrollment_end_date)
        /\ \A r \in Enrolled :
              (\A x \in Enrolled : x.patient_id = r.patient_id => x = r) =>
                  {pt_enrollment_span[i] : i \in SpansOf(r.patient_id)}
                    = {[patient_id |-> r.patient_id,
                        enrollment_start_date |-> FirstOfMonth(r.month_year),
                        enrollment_end_date |-> LastOfMonth(r.month_year)]}

\* C7: for single-year enrollment rows, repeated months included, no calendar
\* day lies in two different spans of the same patient.
C7_SpansDisjoint ==
    (span_csv_written /\ SingleYearInput) =>
        \A i, j \in 1..Len(pt_enrollment_span) :
            (i # j /\ pt_enrollment_span[i].patient_id = pt_enrollment_span[j].patient_id) =>
                \/ pt_enrollment_span[i].enrollment_end_date
                     < pt_enrollment_span[j].enrollment_start_date
                \/ pt_enrollment_span[j].enrollment_end_date
                     < pt_enrollment_span[i].enrollment_start_date

\* The (patient_id, month) pairs a span covers, as enrollment rows dated the
\* first of each month.
CoveredRows(s) ==
    LET a == Year(s.enrollment_start_date) * 12 + Month(s.enrollment_start_date) - 1
        b == Year(s.enrollment_end_date) * 12 + Month(s.enrollment_end_date) - 1
    IN  {[patient_id |-> s.patient_id,
          month_year |-> <<(k % 12) + 1, 1, (k \div 12) - 2000>>] : k \in a..b}

CoveredFile(df) == SetToBag(UNION {CoveredRows(s) : s \in Range(df)})

\* C8: running SpanBuilder on the (patient_id, month) pairs covered by its own
\* output gives the same set of spans.
C8_Idempotent ==
    span_csv_written =>
        Range(SpanBuilder(CoveredFile(pt_enrollment_span))) = Range(pt_enrollment_span)

\* C9: when the enrollment records hold months of more than one calendar year,
\* the single-year check has reported failure by the time spans exist.
C9_MultiYearReported ==
    (span_csv_written /\ MultiYearInput) => year_check = "False"

C9_Witness ==
    /\ span_csv_written
    /\ MultiYearInput
    /\ Len(pt_enrollment_span) > 0
    /\ year_check = "False"

\* C10: a failed retrieval is never retried and ends the run with a non-zero
\* exit; no later stage runs and no output file is written after it.
C10_RetrievalFailureHalts ==
    /\ \A k \in 1..2 : downloads[k] <= 1
    /\ \A k \in 1..2 :
          retrieveError[k] # "none" =>
              /\ pc = "exited"
              /\ exitCode > 0
              /\ ~result_csv_written
              /\ result = <<>>
              /\ combined = <<>>
    /\ retrieveError[1] # "none" =>
          /\ ~span_csv_written
          /\ pt_enrollment_span = <<>>
          /\ year_check = "none"
          /\ downloads[2] = 0

C10_Witness ==
    /\ retrieveError[2] = "ClientError"
    /\ pc = "exited"
    /\ exitCode = 1
    /\ span_csv_written
    /\ ~result_csv_written

----------------------------------------------------------------------------
(* Aggregation claims, stated from the visit file *)

\* The visit file's distinct rows, with the date parsed.
VisitDate(v) == to_datetime(v.date)

\* The distinct rows of the visit file that belong to the patient of r and are
\* dated within r's enrollment period, both end days included.
VisitsWithin(r) ==
    {v \in BagToSet(visits_csv) :
        /\ v.patient_id = r.patient_id
        /\ r.enrollment_start_date <= VisitDate(v)
        /\ VisitDate(v) <= r.enrollment_end_date}

RECURSIVE TotalCount(_)
\* Sum of outpatient_visit_count over a set of distinct rows, each taken as
\* often as the visit file holds it.
TotalCount(V) ==
    IF V = {} THEN 0
    ELSE LET v == CHOOSE x \in V : TRUE
         IN  v.outpatient_visit_count * CopiesIn(v, visits_csv) + TotalCount(V \ {v})

\* C3: in every output row, ct_outpatient_visits is the sum of visit_count over
\* all visit rows of the row's patient dated within the row's enrollment period,
\* rows on the same date each adding their own count.
C3_VisitSum ==
    pc = "done" =>
        \A i \in 1..Len(result) :
            result[i].ct_outpatient_visits = TotalCount(VisitsWithin(result[i]))

\* Visits on one date with counts 1 and 1 and on another date with count 2 give 4.
C3_Witness ==
    /\ pc = "done"
    /\ \E i \in 1..Len(result) :
          /\ result[i].ct_outpatient_visits = 4
          /\ \E v, w \in VisitsWithin(result[i]) :
                /\ v.outpatient_visit_count = 1
                /\ CopiesIn(v, visits_csv) = 2
                /\ w.outpatient_visit_count = 2
                /\ w.date # v.date

\* C4: in every output row, ct_days_with_outpatient_visit is the number of
\* distinct dates on which the row's patient has a visit row dated within the
\* row's enrollment period.
C4_DistinctDays ==
    pc = "done" =>
        \A i \in 1..Len(result) :
            result[i].ct_days_with_outpatient_visit
              = Cardinality({VisitDate(v) : v \in VisitsWithin(result[i])})

\* Three visit rows on two dates count as two days.
C4_Witness ==
    /\ pc = "done"
    /\ \E i \in 1..Len(result) :
          /\ result[i].ct_days_with_outpatient_visit = 2
          /\ \E v, w \in VisitsWithin(result[i]) :
                /\ v # w
                /\ v.date = w.date

\* The joined row of a span and a visit row.
Joined(s, v) ==
    [patient_id |-> s.patient_id,
     enrollment_start_date |-> s.enrollment_start_date,
     enrollment_end_date |-> s.enrollment_end_date,
     date |-> VisitDate(v),
     outpatient_visit_count |-> v.outpatient_visit_count]

RECURSIVE RowCount(_)
\* Number of rows of the visit file among a set of its distinct rows.
RowCount(V) ==
    IF V = {} THEN 0
    ELSE LET v == CHOOSE x \in V : TRUE
         IN  CopiesIn(v, visits_csv) + RowCount(V \ {v})

\* C5: a visit row reaches a span's aggregates exactly when it belongs to the
\* span's patient and is dated within [enrollment_start, enrollment_end], end
\* days included; the output has a row for a span exactly when such a visit
\* exists, so a visit within none of its patient's spans reaches no output row.
C5_VisitFilter ==
    pc = "done" =>
        /\ \A s \in Range(pt_enrollment_span) :
              LET copies == Cardinality({i \in 1..Len(pt_enrollment_span) :
                                            pt_enrollment_span[i] = s})
              IN  /\ \A v \in BagToSet(visits_csv) :
                        v.patient_id = s.patient_id =>
                            Cardinality({k \in 1..Len(combined) : combined[k] = Joined(s, v)})
                              = IF v \in VisitsWithin(s)
                                THEN CopiesIn(v, visits_csv) * copies
                                ELSE 0
                  /\ Cardinality({k \in 1..Len(combined) : SameSpan(combined[k], s)})
                       = RowCount(VisitsWithin(s)) * copies
        /\ \A k \in 1..Len(combined) :
              \E s \in Range(pt_enrollment_span) : \E v \in VisitsWithin(s) :
                  combined[k] = Joined(s, v)
        /\ {[patient_id |-> result[i].patient_id,
             enrollment_start_date |-> result[i].enrollment_start_date,
             enrollment_end_date |-> result[i].enrollment_end_date] :
               i \in 1..Len(result)}
             = {s \in Range(pt_enrollment_span) : VisitsWithin(s) # {}}

\* A visit on the span's last day is kept, one a day later is dropped, and a
\* visit of a patient without any span reaches nothing.
C5_Witness ==
    /\ pc = "done"
    /\ \E s \in Range(pt_enrollment_span) : \E v, w \in BagToSet(visits_csv) :
          /\ v.patient_id = s.patient_id
          /\ w.patient_id = s.patient_id
          /\ VisitDate(v) = s.enrollment_end_date
          /\ VisitDate(w) = NextDay(s.enrollment_end_date)
          /\ \E k \in 1..Len(combined) : combined[k] = Joined(s, v)
          /\ \A k \in 1..Len(combined) : combined[k] # Joined(s, w)
    /\ \E v \in BagToSet(visits_csv) :
          \A s \in Range(pt_enrollment_span) : v \notin VisitsWithin(s)

\* Every visit row carries a count of at least 1.
PositiveCounts == \A v \in BagToSet(visits_csv) : v.outpatient_visit_count >= 1

\* C6: when every visit_count is at least 1, every output row has
\* ct_days_with_outpatient_visit <= ct_outpatient_visits.
C6_DaysAtMostVisits ==
    (pc = "done" /\ PositiveCounts) =>
        \A i \in 1..Len(result) :
            result[i].ct_days_with_outpatient_visit <= result[i].ct_outpatient_visits

C6_Witness ==
    /\ pc = "done"
    /\ PositiveCounts
    /\ count_check = "True"
    /\ \E i \in 1..Len(result) :
          /\ result[i].ct_days_with_outpatient_visit = 2
          /\ result[i].ct_outpatient_visits = 2

====
